---- MODULE Spec2Model ----
(***************************************************************************)
(* Fixed-timestep motion and collision loop of src/src/main.rs (a Bevy 0.9 *)
(* game): move_mario_input, move_pacman, apply_velocity and                *)
(* check_for_collisions, scheduled once per fixed tick under the ordering  *)
(* constraints declared in main().                                         *)
(*                                                                         *)
(* Numbers.  The program computes in f32.  The model computes in exact     *)
(* fixed point: a length of n pixels is the integer n * Scale, so that the *)
(* product velocity * TIME_STEP is an integer for every velocity the       *)
(* program produces (multiples of 50).  f32 rounding is not modelled.      *)
(***************************************************************************)
EXTENDS Integers, Sequences, FiniteSets, TLC

\* ------------------------------------------------------------ bounds
\* Ticks explored from the state setup() builds.
MaxTicks == 22
\* Ticks explored from an arbitrary mid-game state.
AnyTicks == 3

\* --------------------------------------------------------- constants
\* TIME_STEP = 1.0 / 60.0: the number of fixed ticks per second.
TicksPerSecond == 60
BLOCK_SIZE == 20
MARIO_XSPEED == 300
JUMP_SPEED == 800
GRAVITY == 50
paddle_y == -500
WALL_THICKNESS == 20
LEFT_WALL == -450
RIGHT_WALL == 450
TOP_WALL == 300
BOTTOM_WALL == BLOCK_SIZE * (-12)
BRICK_SIDE == 10
GAP_BETWEEN_PADDLE_AND_BRICKS == 270
GAP_BETWEEN_BRICKS == 5
GAP_BETWEEN_BRICKS_AND_SIDES == 20

\* Model units per pixel: with 6 units to the pixel, v * TIME_STEP is the
\* integer v \div 10 for every velocity v that is a multiple of 10.
Scale == TicksPerSecond \div 10

Px(n) == n * Scale

Vec(a, b) == [x |-> a, y |-> b]

MARIO_SIZE == Vec(Px(BLOCK_SIZE * 2), Px(BLOCK_SIZE * 3))
MARIO_STARTING_POSITION == Vec(Px(0), Px(-50))
\* INITIAL_BALL_DIRECTION.normalize() * MARIO_XSPEED, the direction being (-1, 0)
INITIAL_VELOCITY == Vec(-MARIO_XSPEED, 0)

Abs(n) == IF n < 0 THEN -n ELSE n

\* ------------------------------------------------------------ layout
WallLocations ==
    {"Left", "Right", "Bottom", "Top", "Locate1", "Locate2", "Locate3",
     "Locate4", "Locate5", "Locate6", "Locate7"}

\* The WallBundle::new(..) calls setup() makes (Left, Right and Top are
\* commented out there).
SpawnedWalls ==
    {"Bottom", "Locate1", "Locate2", "Locate3", "Locate4", "Locate5",
     "Locate6", "Locate7"}

WallPosition(loc) ==
    CASE loc = "Left" -> Vec(Px(LEFT_WALL), Px(0))
      [] loc = "Right" -> Vec(Px(RIGHT_WALL), Px(0))
      [] loc = "Bottom" -> Vec(Px(0), Px(BOTTOM_WALL))
      [] loc = "Top" -> Vec(Px(0), Px(TOP_WALL))
      [] loc = "Locate1" -> Vec(Px(BLOCK_SIZE * 10), Px(BLOCK_SIZE * (-6)))
      [] loc = "Locate2" -> Vec(Px(BLOCK_SIZE * (-10)), Px(BLOCK_SIZE * (-6)))
      [] loc = "Locate3" -> Vec(Px(0), Px(0))
      [] loc = "Locate4" -> Vec(Px(BLOCK_SIZE * 14), Px(BLOCK_SIZE * (-1)))
      [] loc = "Locate5" -> Vec(Px(BLOCK_SIZE * (-14)), Px(BLOCK_SIZE * (-1)))
      [] loc = "Locate6" -> Vec(Px(BLOCK_SIZE * 9), Px(BLOCK_SIZE * 6))
      [] loc = "Locate7" -> Vec(Px(BLOCK_SIZE * (-9)), Px(BLOCK_SIZE * 6))

WallSize(loc) ==
    LET arena_height == TOP_WALL - BOTTOM_WALL
    IN  CASE loc \in {"Left", "Right"} ->
               Vec(Px(WALL_THICKNESS), Px(arena_height + WALL_THICKNESS))
          [] loc \in {"Bottom", "Top"} -> Vec(Px(BLOCK_SIZE * 32), Px(WALL_THICKNESS))
          [] loc \in {"Locate1", "Locate2"} -> Vec(Px(BLOCK_SIZE * 12), Px(BLOCK_SIZE))
          [] loc = "Locate3" -> Vec(Px(BLOCK_SIZE * 16), Px(BLOCK_SIZE))
          [] loc \in {"Locate4", "Locate5"} -> Vec(Px(BLOCK_SIZE * 4), Px(BLOCK_SIZE))
          [] loc \in {"Locate6", "Locate7"} -> Vec(Px(BLOCK_SIZE * 14), Px(BLOCK_SIZE))

\* The translation of the brick setup() would spawn for (row, column).
BrickPosition(row, column) ==
    LET total_width_of_bricks == (RIGHT_WALL - LEFT_WALL) - 2 * GAP_BETWEEN_BRICKS_AND_SIDES
        bottom_edge_of_bricks == paddle_y + GAP_BETWEEN_PADDLE_AND_BRICKS
        n_columns == total_width_of_bricks \div (BRICK_SIDE + GAP_BETWEEN_BRICKS)
        n_vertical_gaps == n_columns - 1
        center_of_bricks == (LEFT_WALL + RIGHT_WALL) \div 2
        \* all of these are halves of a pixel at worst; computed in model units
        left_edge_of_bricks == Px(center_of_bricks)
                               - (n_columns * Px(BRICK_SIDE)) \div 2
                               - (n_vertical_gaps * Px(GAP_BETWEEN_BRICKS)) \div 2
        offset_x == left_edge_of_bricks + Px(BRICK_SIDE) \div 2
        offset_y == Px(bottom_edge_of_bricks) + Px(BRICK_SIDE) \div 2
    IN  Vec(offset_x + column * Px(BRICK_SIDE + GAP_BETWEEN_BRICKS),
            offset_y + row * Px(BRICK_SIDE + GAP_BETWEEN_BRICKS))

\* Entities carrying the Collider component.
PaddleEntity == [name |-> "Paddle", row |-> 0, column |-> 0]
WallEntity(loc) == [name |-> loc, row |-> 0, column |-> 0]
BrickEntity(r, c) == [name |-> "Brick", row |-> r, column |-> c]

\* The entity carrying the Mario component (with Velocity and IsJumping, and
\* without Collider), and the entities setup() spawns with that component.
MarioEntity == [name |-> "Mario", row |-> 0, column |-> 0]
SetupMarios == {MarioEntity}

IsBrick(e) == e.name = "Brick"

ColliderTranslation(e) ==
    IF e.name = "Paddle" THEN Vec(Px(0), Px(paddle_y))
    ELSE IF IsBrick(e) THEN BrickPosition(e.row, e.column)
    ELSE WallPosition(e.name)

ColliderScale(e) ==
    IF e.name = "Paddle" THEN MARIO_SIZE
    ELSE IF IsBrick(e) THEN Vec(Px(BRICK_SIDE), Px(BRICK_SIDE))
    ELSE WallSize(e.name)

\* The colliders setup() spawns when its brick loops run over `rows` and
\* `columns`.  The program's loops are `0..0`: both ranges are empty.
SetupColliders(rows, columns) ==
    {PaddleEntity} \cup {WallEntity(loc) : loc \in SpawnedWalls}
                   \cup {BrickEntity(r, c) : r \in rows, c \in columns}

ShippedRows == {}
ShippedColumns == {}

VARIABLES
    phase,        \* "idle" between ticks, "run" while a tick's systems run
    tick,         \* fixed ticks completed
    ran,          \* the systems of the set that have run in this tick
    keys,         \* Input<KeyCode>: the keys held during this tick
    translation,  \* Mario's Transform.translation (x, y)
    velocity,     \* Mario's Velocity
    isjumping,    \* Mario's IsJumping.isjumping
    paddle,       \* the Paddle's Transform.translation (x, y)
    score,        \* Scoreboard.score
    colliders,    \* live entities with the Collider component
    spawned,      \* the colliders setup() spawned
    commands,     \* despawn commands queued, applied when the tick's systems are done
    marios,       \* live entities with the Mario component
    events,       \* CollisionEvents sent by the latest check_for_collisions
    scenario,     \* history: the run began at rest with the flag clear, Up has been
                  \* held in every tick since and no collider has been overlapped
    atrest        \* history: the tick under way began with Mario at rest on top
                  \* of a wall, and no key is held in it

vars == <<phase, tick, ran, keys, translation, velocity, isjumping, paddle,
          score, colliders, spawned, commands, marios, events, scenario, atrest>>

\* -------------------------------------------------------- scheduling
Systems == {"move_mario_input", "move_pacman", "apply_velocity", "check_for_collisions"}

\* Before, with move_mario_input left unordered against apply_velocity.
BeforeWithoutInputOrder ==
    {<<"move_pacman", "check_for_collisions">>,
     <<"apply_velocity", "check_for_collisions">>}

\* The ordering constraints of the fixed-timestep system set: <<a, b>> says
\* a runs before b.
Before ==
    {<<"move_pacman", "check_for_collisions">>,
     <<"move_mario_input", "apply_velocity">>,
     <<"apply_velocity", "check_for_collisions">>}

\* The executor runs each system of the set once per tick, a system only
\* after every system declared before it.
CanRun(s) ==
    /\ phase = "run"
    /\ s \notin ran
    /\ \A e \in Before : e[2] = s => e[1] \in ran

Keys == {"Left", "Right", "Up", "Down"}

\* ---------------------------------------------------- pure functions
\* MarioInput without the test of the flag: Up jumps whenever it is held.
MarioInputUnguarded(k, vel, jumping) ==
    LET jump == "Up" \in k
        vy == IF jump THEN JUMP_SPEED ELSE vel.y
        vx == IF "Left" \in k THEN -MARIO_XSPEED
              ELSE IF "Right" \in k THEN MARIO_XSPEED
              ELSE 0
    IN  [velocity |-> Vec(vx, vy), isjumping |-> IF jump THEN TRUE ELSE jumping]

\* MarioInput without the final `else`: with neither Left nor Right held the
\* horizontal velocity is left as it was.
MarioInputKeepsX(k, vel, jumping) ==
    LET jump == "Up" \in k /\ jumping = FALSE
        vy == IF jump THEN JUMP_SPEED ELSE vel.y
        vx == IF "Left" \in k THEN -MARIO_XSPEED
              ELSE IF "Right" \in k THEN MARIO_XSPEED
              ELSE vel.x
    IN  [velocity |-> Vec(vx, vy), isjumping |-> IF jump THEN TRUE ELSE jumping]

\* move_mario_input: the velocity and flag it leaves, for the keys held.
MarioInput(k, vel, jumping) ==
    LET jump == "Up" \in k /\ jumping = FALSE
        vy == IF jump THEN JUMP_SPEED ELSE vel.y
        vx == IF "Left" \in k THEN -MARIO_XSPEED
              ELSE IF "Right" \in k THEN MARIO_XSPEED
              ELSE 0
    IN  [velocity |-> Vec(vx, vy), isjumping |-> IF jump THEN TRUE ELSE jumping]

\* v * TIME_STEP, in model units.
Step(v) == (v * Scale) \div TicksPerSecond

\* Integrate with gravity applied before the position update.
IntegrateGravityFirst(tr, vel) ==
    LET vy1 == vel.y - GRAVITY
        x1 == tr.x + Step(vel.x)
        y1 == tr.y + Step(vy1)
        x2 == IF x1 > Px(BLOCK_SIZE * 16) THEN Px(BLOCK_SIZE * (-16)) ELSE x1
        x3 == IF x2 < Px(BLOCK_SIZE * (-16)) THEN Px(BLOCK_SIZE * 16) ELSE x2
    IN  [translation |-> Vec(x3, y1), velocity |-> Vec(vel.x, vy1)]

\* Integrate with the lower wraparound test written <= instead of <.
IntegrateWrapInclusive(tr, vel) ==
    LET x1 == tr.x + Step(vel.x)
        y1 == tr.y + Step(vel.y)
        x2 == IF x1 > Px(BLOCK_SIZE * 16) THEN Px(BLOCK_SIZE * (-16)) ELSE x1
        x3 == IF x2 <= Px(BLOCK_SIZE * (-16)) THEN Px(BLOCK_SIZE * 16) ELSE x2
    IN  [translation |-> Vec(x3, y1), velocity |-> Vec(vel.x, vel.y - GRAVITY)]

\* apply_velocity: the translation and velocity it leaves.
Integrate(tr, vel) ==
    LET x1 == tr.x + Step(vel.x)
        y1 == tr.y + Step(vel.y)
        x2 == IF x1 > Px(BLOCK_SIZE * 16) THEN Px(BLOCK_SIZE * (-16)) ELSE x1
        x3 == IF x2 < Px(BLOCK_SIZE * (-16)) THEN Px(BLOCK_SIZE * 16) ELSE x2
    IN  [translation |-> Vec(x3, y1), velocity |-> Vec(vel.x, vel.y - GRAVITY)]

\* A penetration depth; Inside carries -infinity, whose abs() exceeds any
\* finite depth.
Depth(side, d) == [side |-> side, finite |-> TRUE, depth |-> d]
NoDepth == [side |-> "Inside", finite |-> FALSE, depth |-> 0]

AbsLess(p, q) == p.finite /\ (~q.finite \/ Abs(p.depth) < Abs(q.depth))

\* collide(a_pos, a_size, b_pos, b_size) of bevy::sprite::collide_aabb (Bevy
\* 0.9), the library function check_for_collisions calls: "None", or the
\* side of b that a hit, the axis of the smaller penetration depth winning.
Collide(a_pos, a_size, b_pos, b_size) ==
    LET a_min == Vec(a_pos.x - a_size.x \div 2, a_pos.y - a_size.y \div 2)
        a_max == Vec(a_pos.x + a_size.x \div 2, a_pos.y + a_size.y \div 2)
        b_min == Vec(b_pos.x - b_size.x \div 2, b_pos.y - b_size.y \div 2)
        b_max == Vec(b_pos.x + b_size.x \div 2, b_pos.y + b_size.y \div 2)
        xc == IF a_min.x < b_min.x /\ a_max.x > b_min.x /\ a_max.x < b_max.x
                 THEN Depth("Left", b_min.x - a_max.x)
              ELSE IF a_min.x > b_min.x /\ a_min.x < b_max.x /\ a_max.x > b_max.x
                 THEN Depth("Right", a_min.x - b_max.x)
              ELSE NoDepth
        yc == IF a_min.y < b_min.y /\ a_max.y > b_min.y /\ a_max.y < b_max.y
                 THEN Depth("Bottom", b_min.y - a_max.y)
              ELSE IF a_min.y > b_min.y /\ a_min.y < b_max.y /\ a_max.y > b_max.y
                 THEN Depth("Top", a_min.y - b_max.y)
              ELSE NoDepth
    IN  IF a_min.x < b_max.x /\ a_max.x > b_min.x /\ a_min.y < b_max.y /\ a_max.y > b_min.y
        THEN IF AbsLess(yc, xc) THEN yc.side ELSE xc.side
        ELSE "None"

\* The collision of Mario at `tr` with collider e.
CollisionWith(tr, e) ==
    Collide(tr, MARIO_SIZE, ColliderTranslation(e), ColliderScale(e))

\* ResolveWall with the tests of Left and Right exchanged.
ResolveWallSwappedX(collision, vel, jumping) ==
    LET reflect_x == CASE collision = "Left" -> vel.x < 0
                       [] collision = "Right" -> vel.x > 0
                       [] OTHER -> FALSE
        reflect_y == collision = "Top" /\ vel.y < 0
        vy1 == IF collision = "Bottom" /\ vel.y > 0 THEN 0 ELSE vel.y
    IN  [velocity |-> Vec(IF reflect_x THEN 0 ELSE vel.x, IF reflect_y THEN 0 ELSE vy1),
         isjumping |-> IF reflect_y THEN FALSE ELSE jumping]

\* ResolveWall with Bottom routed through reflect_y like Top, so that a
\* bumped head clears the flag too.
ResolveWallBottomReflects(collision, vel, jumping) ==
    LET reflect_x == CASE collision = "Left" -> vel.x > 0
                       [] collision = "Right" -> vel.x < 0
                       [] OTHER -> FALSE
        reflect_y == \/ collision = "Top" /\ vel.y < 0
                     \/ collision = "Bottom" /\ vel.y > 0
    IN  [velocity |-> Vec(IF reflect_x THEN 0 ELSE vel.x, IF reflect_y THEN 0 ELSE vel.y),
         isjumping |-> IF reflect_y THEN FALSE ELSE jumping]

\* The `else` branch of check_for_collisions: a hit on a collider that is no
\* Brick, on side `collision`.
ResolveWall(collision, vel, jumping) ==
    LET reflect_x == CASE collision = "Left" -> vel.x > 0
                       [] collision = "Right" -> vel.x < 0
                       [] OTHER -> FALSE
        reflect_y == collision = "Top" /\ vel.y < 0
        vy1 == IF collision = "Bottom" /\ vel.y > 0 THEN 0 ELSE vel.y
    IN  [velocity |-> Vec(IF reflect_x THEN 0 ELSE vel.x, IF reflect_y THEN 0 ELSE vy1),
         isjumping |-> IF reflect_y THEN FALSE ELSE jumping]

\* Visit without the `else`: a brick hit falls through to the wall branch.
VisitFallThrough(tr, e, st) ==
    LET collision == CollisionWith(tr, e)
        r == ResolveWall(collision, st.velocity, st.isjumping)
    IN  IF collision = "None" THEN st
        ELSE IF IsBrick(e)
             THEN [st EXCEPT !.events = @ + 1, !.score = @ + 1,
                             !.commands = @ \cup {e}, !.velocity = r.velocity,
                             !.isjumping = r.isjumping]
             ELSE [st EXCEPT !.events = @ + 1, !.velocity = r.velocity,
                             !.isjumping = r.isjumping]

\* Visit scoring every hit, brick or not.
VisitScoresEveryHit(tr, e, st) ==
    LET collision == CollisionWith(tr, e)
    IN  IF collision = "None" THEN st
        ELSE IF IsBrick(e)
             THEN [st EXCEPT !.events = @ + 1, !.score = @ + 1,
                             !.commands = @ \cup {e}]
             ELSE LET r == ResolveWall(collision, st.velocity, st.isjumping)
                  IN  [st EXCEPT !.events = @ + 1, !.score = @ + 1,
                                 !.velocity = r.velocity, !.isjumping = r.isjumping]

\* Visit sending the CollisionEvent before the `if let`, for every collider
\* of the query.
VisitSignalsEveryCollider(tr, e, st) ==
    LET collision == CollisionWith(tr, e)
    IN  IF collision = "None" THEN [st EXCEPT !.events = @ + 1]
        ELSE IF IsBrick(e)
             THEN [st EXCEPT !.events = @ + 1, !.score = @ + 1,
                             !.commands = @ \cup {e}]
             ELSE LET r == ResolveWall(collision, st.velocity, st.isjumping)
                  IN  [st EXCEPT !.events = @ + 1, !.velocity = r.velocity,
                                 !.isjumping = r.isjumping]

\* Visit sending the CollisionEvent only where the hit changed something: a
\* brick, or a wall hit that zeroed a velocity component.
VisitSignalsOnChange(tr, e, st) ==
    LET collision == CollisionWith(tr, e)
    IN  IF collision = "None" THEN st
        ELSE IF IsBrick(e)
             THEN [st EXCEPT !.events = @ + 1, !.score = @ + 1,
                             !.commands = @ \cup {e}]
             ELSE LET r == ResolveWall(collision, st.velocity, st.isjumping)
                  IN  [st EXCEPT !.events = IF r.velocity = st.velocity THEN @ ELSE @ + 1,
                                 !.velocity = r.velocity, !.isjumping = r.isjumping]

\* Visit despawning every collider hit, brick or not.
VisitDespawnsEveryHit(tr, e, st) ==
    LET collision == CollisionWith(tr, e)
    IN  IF collision = "None" THEN st
        ELSE IF IsBrick(e)
             THEN [st EXCEPT !.events = @ + 1, !.score = @ + 1,
                             !.commands = @ \cup {e}]
             ELSE LET r == ResolveWall(collision, st.velocity, st.isjumping)
                  IN  [st EXCEPT !.events = @ + 1, !.velocity = r.velocity,
                                 !.isjumping = r.isjumping, !.commands = @ \cup {e}]

\* One iteration of the loop of check_for_collisions, on collider e, from the
\* loop state st = [velocity, isjumping, score, commands, events].
Visit(tr, e, st) ==
    LET collision == CollisionWith(tr, e)
    IN  IF collision = "None" THEN st
        ELSE IF IsBrick(e)
             THEN [st EXCEPT !.events = @ + 1, !.score = @ + 1,
                             !.commands = @ \cup {e}]
             ELSE LET r == ResolveWall(collision, st.velocity, st.isjumping)
                  IN  [st EXCEPT !.events = @ + 1, !.velocity = r.velocity,
                                 !.isjumping = r.isjumping]

\* VisitAll leaving the loop after the first collider visited.
VisitAllFirstHit(tr, order, st) ==
    IF order = <<>> THEN st ELSE Visit(tr, Head(order), st)

\* The loop of check_for_collisions over the colliders in the order `order`.
RECURSIVE VisitAll(_, _, _)
VisitAll(tr, order, st) ==
    IF order = <<>> THEN st
    ELSE VisitAll(tr, Tail(order), Visit(tr, Head(order), st))

\* The orders in which a query may visit the entities of S.
Orders(S) ==
    {f \in [1..Cardinality(S) -> S] : \A i, j \in 1..Cardinality(S) : f[i] = f[j] => i = j}

\* The live colliders Mario at `tr` overlaps.
Overlapping(tr, live) == {e \in live : CollisionWith(tr, e) # "None"}

LoopStart(vel, jumping, sc, cmds) ==
    [velocity |-> vel, isjumping |-> jumping, score |-> sc, commands |-> cmds, events |-> 0]

\* ------------------------------------------------------------ actions
\* setup(): the world after the startup system.
Init ==
    /\ phase = "idle"
    /\ tick = 0
    /\ ran = Systems
    /\ keys = {}
    /\ translation = MARIO_STARTING_POSITION
    /\ velocity = INITIAL_VELOCITY
    /\ isjumping = FALSE
    /\ paddle = Vec(Px(0), Px(paddle_y))
    /\ score = 0
    /\ spawned = SetupColliders(ShippedRows, ShippedColumns)
    /\ colliders = spawned
    /\ commands = {}
    /\ marios = SetupMarios
    /\ events = 0
    /\ scenario = (velocity = Vec(0, 0) /\ isjumping = FALSE)
    /\ atrest = FALSE

\* FixedTimestep::step(TIME_STEP) lets the set run once more; the keyboard
\* state the tick's systems read is whatever is held by then, one of `held`.
BeginTickHolding(limit, held) ==
    /\ phase = "idle"
    /\ tick < limit
    /\ phase' = "run"
    /\ ran' = {}
    /\ \E k \in held : keys' = k
    /\ scenario' = (scenario /\ "Up" \in keys')
    /\ atrest' = (/\ velocity = Vec(0, 0)
                  /\ isjumping = FALSE
                  /\ \E e \in colliders : ~IsBrick(e) /\ CollisionWith(translation, e) = "Top"
                  /\ keys' = {})
    /\ UNCHANGED <<tick, translation, velocity, isjumping, paddle, score, colliders,
                   spawned, commands, marios, events>>

\* query.single_mut() is fatal unless exactly one entity matches.
BeginTick(limit) == BeginTickHolding(limit, SUBSET Keys)

MoveMarioInput ==
    /\ CanRun("move_mario_input")
    /\ Cardinality(marios) = 1
    /\ LET r == MarioInput(keys, velocity, isjumping)
       IN  /\ velocity' = r.velocity
           /\ isjumping' = r.isjumping
    /\ ran' = ran \cup {"move_mario_input"}
    /\ UNCHANGED <<phase, tick, keys, translation, paddle, score, colliders, spawned,
                   commands, marios, events, scenario, atrest>>

\* move_pacman computes new_paddle_x_position and new_paddle_y_position and
\* drops them: the two assignments are commented out.
PacmanTarget(k, p) ==
    LET x_direction == IF "Left" \in k THEN -1 ELSE IF "Right" \in k THEN 1 ELSE 0
        y_direction == IF "Down" \in k THEN -1 ELSE IF "Up" \in k THEN 1 ELSE 0
    IN  Vec(p.x + Step(x_direction * MARIO_XSPEED), p.y + Step(y_direction * MARIO_XSPEED))

\* MovePacmanResult with the assignments in place (and no clamp).
MovePacmanWrites(k, p) ==
    LET candidate == PacmanTarget(k, p)
    IN  candidate

MovePacmanResult(k, p) ==
    LET candidate == PacmanTarget(k, p)
    IN  p

MovePacman ==
    /\ CanRun("move_pacman")
    /\ paddle' = MovePacmanResult(keys, paddle)
    /\ ran' = ran \cup {"move_pacman"}
    /\ UNCHANGED <<phase, tick, keys, translation, velocity, isjumping, score, colliders,
                   spawned, commands, marios, events, scenario, atrest>>

\* The loop of apply_velocity runs over the entities with Transform, Velocity
\* and IsJumping: Mario, if it is there.
ApplyVelocity ==
    /\ CanRun("apply_velocity")
    /\ LET r == IF marios = {}
                THEN [translation |-> translation, velocity |-> velocity]
                ELSE Integrate(translation, velocity)
       IN  /\ translation' = r.translation
           /\ velocity' = r.velocity
    /\ ran' = ran \cup {"apply_velocity"}
    /\ UNCHANGED <<phase, tick, keys, isjumping, paddle, score, colliders, spawned,
                   commands, marios, events, scenario, atrest>>

\* The query visits the live colliders in an order the program does not
\* choose; colliders that do not overlap Mario are skipped by `if let`.
CheckForCollisions ==
    /\ CanRun("check_for_collisions")
    /\ Cardinality(marios) = 1
    /\ \E order \in Orders(Overlapping(translation, colliders)) :
          LET r == VisitAll(translation, order,
                            LoopStart(velocity, isjumping, score, commands))
          IN  /\ velocity' = r.velocity
              /\ isjumping' = r.isjumping
              /\ score' = r.score
              /\ commands' = r.commands
              /\ events' = r.events
              /\ scenario' = (scenario /\ r.events = 0)
    /\ ran' = ran \cup {"check_for_collisions"}
    /\ UNCHANGED <<phase, tick, keys, translation, paddle, colliders, spawned, marios,
                   atrest>>

\* Every system of the set has run: the stage applies the queued commands
\* (a despawn removes the entity with all its components) and the tick is
\* over.
ApplyBuffers ==
    /\ phase = "run"
    /\ ran = Systems
    /\ colliders' = colliders \ commands
    /\ marios' = marios \ commands
    /\ commands' = {}
    /\ phase' = "idle"
    /\ tick' = tick + 1
    /\ atrest' = FALSE
    /\ UNCHANGED <<ran, keys, translation, velocity, isjumping, paddle, score, spawned,
                   events, scenario>>

Tick(limit) ==
    \/ BeginTick(limit)
    \/ MoveMarioInput
    \/ MovePacman
    \/ ApplyVelocity
    \/ CheckForCollisions
    \/ ApplyBuffers

Next == Tick(MaxTicks)

Spec == Init /\ [][Next]_vars

\* ------------------------------------------------- mid-game states
\* States the game reaches from setup() at the end of a tick, each with the
\* keys held tick by tick that reach it (f32 rounding aside).  y is in model
\* units where it is no whole number of pixels.
Start(x, y, vx, vy, jumping) ==
    [translation |-> Vec(x, y), velocity |-> Vec(vx, vy), isjumping |-> jumping]

\* setup() itself
AtSpawn == Start(Px(0), Px(-50), -MARIO_XSPEED, 0, FALSE)
\* no key for 18 ticks: falling, one tick above the row-0 bricks
Falling == Start(Px(0), -1065, 0, -900, FALSE)
\* no key for 20 ticks: resting on the Bottom wall
Resting == Start(Px(0), -1250, 0, 0, FALSE)
\* Left for 8 ticks, then no key for 12: resting beside brick column 27
RestingBeside == Start(Px(-40), -1250, 0, 0, FALSE)
\* Right (Left) for 64 ticks: on the Bottom wall at the wraparound edge
AtRightEdge == Start(Px(BLOCK_SIZE * 16), -1250, MARIO_XSPEED, 0, FALSE)
AtLeftEdge == Start(Px(BLOCK_SIZE * (-16)), -1250, -MARIO_XSPEED, 0, FALSE)
\* no key for 20 ticks, Up, no key for 31: one tick before landing from a jump
Landing == Start(Px(0), -1170, 0, -800, TRUE)
\* Right (Left) for 12 ticks: falling beside Locate1 (Locate2)
BesideLocate1 == Start(Px(60), Px(-105), MARIO_XSPEED, -600, FALSE)
BesideLocate2 == Start(Px(-60), Px(-105), -MARIO_XSPEED, -600, FALSE)

\* Brick layouts: the rows and columns the loops of setup() could run over.
AnyRows == SUBSET {0}
AnyColumns == SUBSET {27, 28}

\* The mid-game states whose way there overlaps no brick of those layouts.
ClearStarts ==
    {AtSpawn, Falling, RestingBeside, AtRightEdge, AtLeftEdge, BesideLocate1, BesideLocate2}

AnyStarts == ClearStarts \cup {Resting, Landing}

InitAny ==
    /\ phase = "idle"
    /\ tick = 0
    /\ ran = Systems
    /\ keys = {}
    /\ \E s \in AnyStarts :
          /\ translation = s.translation
          /\ velocity = s.velocity
          /\ isjumping = s.isjumping
          /\ \E rows \in AnyRows, columns \in AnyColumns :
                /\ spawned = SetupColliders(rows, columns)
                /\ s \in ClearStarts \/ spawned = SetupColliders({}, {})
    /\ paddle = Vec(Px(0), Px(paddle_y))
    /\ score = 0
    /\ colliders = spawned
    /\ commands = {}
    /\ marios = SetupMarios
    /\ events = 0
    /\ scenario = (velocity = Vec(0, 0) /\ isjumping = FALSE)
    /\ atrest = FALSE

NextAny == Tick(AnyTicks)

SpecAny == InitAny /\ [][NextAny]_vars

\* ------------------------------------------------- one long game
\* n ticks with the keys k held.
Hold(k, n) == [i \in 1..n |-> k]

\* The keys held tick by tick in a game of 171 ticks from setup(): up onto
\* Locate2, Locate3 and Locate7, a jump there, and off its edge.
FallScript ==
    Hold({"Left"}, 12) \o Hold({"Up", "Left"}, 1) \o Hold({"Left"}, 18)
    \o Hold({"Up", "Left"}, 1) \o Hold({"Left"}, 3) \o Hold({"Right"}, 25)
    \o Hold({"Up", "Right"}, 1) \o Hold({"Right"}, 4) \o Hold({}, 9)
    \o Hold({"Left"}, 3) \o Hold({"Up"}, 1) \o Hold({}, 31)
    \o Hold({"Up"}, 1) \o Hold({}, 28) \o Hold({"Right"}, 4) \o Hold({}, 22)
    \o Hold({"Left"}, 3) \o Hold({}, 4)

NextFall ==
    \/ BeginTickHolding(Len(FallScript), {FallScript[tick + 1]})
    \/ MoveMarioInput
    \/ MovePacman
    \/ ApplyVelocity
    \/ CheckForCollisions
    \/ ApplyBuffers

SpecFall == Init /\ [][NextFall]_vars

\* ------------------------------------------------------------ claims
\* The step in which system s runs.
Runs(s) == s \notin ran /\ s \in ran'

EndOfTick == phase = "idle"

\* C1: in every tick the three core systems run once each, in the order
\* move_mario_input, apply_velocity, check_for_collisions: the integrator
\* runs only after that tick's input step, the collision step only after
\* that tick's integrator, a tick ends only when every system has run, and
\* Mario's translation changes in no step but the integrator's one run.
C1_TickOrder ==
    [][/\ Runs("apply_velocity") => "move_mario_input" \in ran
       /\ Runs("check_for_collisions") => {"move_mario_input", "apply_velocity"} \subseteq ran
       /\ tick' # tick => ran = Systems /\ tick' = tick + 1
       /\ translation' # translation => Runs("apply_velocity")
       /\ ran' # ran => ran' = {} \/ \E s \in Systems : Runs(s) /\ ran' = ran \cup {s}
      ]_vars

\* C1 witness: a later tick in which every system has run.
C1_Witness == phase = "run" /\ ran = Systems /\ tick >= 1

\* C2: move_mario_input sets velocity.y = JUMP_SPEED and is_jumping = true
\* exactly when Up is held and is_jumping is false, and otherwise leaves both
\* unchanged; while is_jumping stays true no step raises velocity.y.
C2_JumpGuard ==
    [][/\ Runs("move_mario_input") =>
             IF "Up" \in keys /\ isjumping = FALSE
             THEN velocity'.y = 800 /\ isjumping' = TRUE
             ELSE velocity'.y = velocity.y /\ isjumping' = isjumping
       /\ isjumping /\ isjumping' => velocity'.y <= velocity.y
      ]_vars

\* C2 witness: Up is held in a tick after the jump, the input step has run
\* and the velocity is still the decaying one of the earlier impulse.
C2_Witness ==
    /\ phase = "run"
    /\ "move_mario_input" \in ran
    /\ "apply_velocity" \notin ran
    /\ "Up" \in keys
    /\ isjumping
    /\ velocity.y > 0
    /\ velocity.y < JUMP_SPEED

\* C3 as claimed: from rest with the flag clear and no overlap, velocity.y is
\* 800 with is_jumping set after one tick with Up held, and 750 after the
\* second.
C3_AsClaimed ==
    scenario /\ EndOfTick =>
        /\ tick = 1 => velocity.y = 800 /\ isjumping
        /\ tick = 2 => velocity.y = 750

\* C3 amended: in that scenario velocity.y is 800 with is_jumping set after
\* the first tick's input step; gravity takes 50 in each tick, so velocity.y
\* is 750 at the end of the first tick and 700 at the end of the second, the
\* jump not firing again.
C3_JumpScenario ==
    scenario =>
        /\ tick = 0 /\ phase = "run" /\ ran = {"move_mario_input"} =>
               velocity.y = 800 /\ isjumping
        /\ tick = 1 /\ EndOfTick => velocity.y = 750 /\ isjumping
        /\ tick = 2 /\ EndOfTick => velocity.y = 700 /\ isjumping

\* C3 witness: the scenario at the end of its second tick.
C3_Witness == scenario /\ EndOfTick /\ tick = 2 /\ velocity.y = 700

\* C4: apply_velocity moves the position by exactly velocity * TIME_STEP,
\* using the velocity held before gravity (x up to the wraparound of C5),
\* then takes exactly GRAVITY from velocity.y, and leaves velocity.x and
\* is_jumping as they were.
C4_Integrator ==
    [][Runs("apply_velocity") =>
          /\ TicksPerSecond * (translation'.y - translation.y) = velocity.y * Scale
          /\ LET x60 == TicksPerSecond * translation.x + velocity.x * Scale
             IN  Abs(x60) <= TicksPerSecond * Px(320) =>
                     TicksPerSecond * translation'.x = x60
          /\ velocity'.y = velocity.y - 50
          /\ velocity'.x = velocity.x
          /\ isjumping' = isjumping
      ]_vars

\* C4 witness: the integrator has just run on a moving, falling actor.
C4_Witness ==
    /\ phase = "run"
    /\ "apply_velocity" \in ran
    /\ "check_for_collisions" \notin ran
    /\ velocity.x # 0
    /\ velocity.y < -GRAVITY

\* C5: after the position update x above +320 becomes exactly -320 and x
\* below -320 exactly +320, otherwise x is as computed; y is never wrapped;
\* so x stays within [-320, +320].
C5_Wraparound ==
    [][/\ Runs("apply_velocity") =>
             LET x1 == translation.x + (velocity.x * Scale) \div TicksPerSecond
             IN  /\ x1 > Px(320) => translation'.x = Px(-320)
                 /\ x1 < Px(-320) => translation'.x = Px(320)
                 /\ x1 >= Px(-320) /\ x1 <= Px(320) => translation'.x = x1
                 /\ translation'.y = translation.y + (velocity.y * Scale) \div TicksPerSecond
       /\ translation'.x >= Px(-320) /\ translation'.x <= Px(320)
      ]_vars

\* C5 witness: Right is held, the integrator has run and Mario is at
\* exactly -320: the step crossed +320 and wrapped once.
C5_Witness ==
    /\ phase = "run"
    /\ "apply_velocity" \in ran
    /\ "Right" \in keys
    /\ "Left" \notin keys
    /\ translation.x = Px(-320)

\* The sides on which Mario at tr hits the live colliders that are no Brick.
WallSides(tr, live) ==
    {CollisionWith(tr, e) : e \in {c \in live : ~IsBrick(c)}} \ {"None"}

\* The live bricks Mario at tr overlaps.
BricksHit(tr, live) == {e \in Overlapping(tr, live) : IsBrick(e)}

\* C6: a wall hit on Top with velocity.y < 0 sets velocity.y = 0 and clears
\* is_jumping; on Bottom with velocity.y > 0 it sets velocity.y = 0 and
\* leaves is_jumping; Inside, and Top or Bottom with the other sign, change
\* nothing; and no other step of the program clears is_jumping.
C6_VerticalResolution ==
    [][/\ Runs("check_for_collisions") =>
             LET sides == WallSides(translation, colliders)
                 landed == "Top" \in sides /\ velocity.y < 0
                 bumped == "Bottom" \in sides /\ velocity.y > 0
             IN  /\ velocity'.y = IF landed \/ bumped THEN 0 ELSE velocity.y
                 /\ isjumping' = IF landed THEN FALSE ELSE isjumping
       /\ isjumping /\ ~isjumping' =>
             /\ Runs("check_for_collisions")
             /\ "Top" \in WallSides(translation, colliders)
             /\ velocity.y < 0
      ]_vars

\* C6 witness: Up was held through the tick, so the flag was set when the
\* collision step ran, and the step found a Top hit and cleared it.
C6_Witness ==
    /\ phase = "run"
    /\ "check_for_collisions" \in ran
    /\ "Up" \in keys
    /\ isjumping = FALSE
    /\ velocity.y = 0
    /\ "Top" \in WallSides(translation, colliders)

\* C7: a wall hit on Left sets velocity.x = 0 if velocity.x > 0, on Right if
\* velocity.x < 0, and otherwise leaves velocity.x; when every wall hit of
\* the tick is Left or Right, velocity.y and is_jumping are unchanged.
C7_HorizontalResolution ==
    [][Runs("check_for_collisions") =>
          LET sides == WallSides(translation, colliders)
              stopped == \/ "Left" \in sides /\ velocity.x > 0
                         \/ "Right" \in sides /\ velocity.x < 0
          IN  /\ velocity'.x = IF stopped THEN 0 ELSE velocity.x
              /\ sides \subseteq {"Left", "Right"} =>
                     velocity'.y = velocity.y /\ isjumping' = isjumping
      ]_vars

\* C7 witness: Right alone was held, so velocity.x was +300 when the
\* collision step ran, and the step found a Left hit and zeroed it.
C7_Witness ==
    /\ phase = "run"
    /\ "check_for_collisions" \in ran
    /\ "Right" \in keys
    /\ "Left" \notin keys
    /\ velocity.x = 0
    /\ velocity.y < 0
    /\ WallSides(translation, colliders) = {"Left"}

\* C8: each live brick Mario overlaps in a tick adds exactly 1 to the score
\* and is gone from the collider set when the tick ends; no collider is ever
\* added; and brick hits change neither velocity nor is_jumping.
C8_BrickHit ==
    [][/\ Runs("check_for_collisions") =>
             LET hit == BricksHit(translation, colliders)
             IN  /\ score' = score + Cardinality(hit)
                 /\ commands' = commands \cup hit
                 /\ WallSides(translation, colliders) = {} =>
                        velocity' = velocity /\ isjumping' = isjumping
       /\ tick' # tick => colliders' = colliders \ commands /\ commands' = {}
       /\ colliders' \subseteq colliders
      ]_vars

\* C8 witness: the collision step has run on an actor overlapping bricks and
\* no wall: they are scored and queued for despawn, and Mario still falls.
C8_Witness ==
    /\ phase = "run"
    /\ "check_for_collisions" \in ran
    /\ commands # {}
    /\ score = Cardinality(commands)
    /\ WallSides(translation, colliders) = {}
    /\ velocity.y < 0

\* The bricks despawned, or hit and queued for despawn.
RemovedBricks == (spawned \ colliders) \cup commands

\* C9: the score is the number of bricks removed so far: it starts at 0,
\* changes only in check_for_collisions, only upwards, by the number of
\* bricks that step removes; nothing but bricks is removed; with no brick
\* spawned (the shipped layout) the score is 0.
C9_Score ==
    /\ score = 0
    /\ [][/\ score' = Cardinality(RemovedBricks')
          /\ \A e \in RemovedBricks' : IsBrick(e)
          /\ score' # score => Runs("check_for_collisions") /\ score' > score
          /\ spawned' = SetupColliders(ShippedRows, ShippedColumns) => score' = 0
         ]_vars

\* C9 witness: two bricks have been despawned and the score is 2.
C9_Witness ==
    /\ EndOfTick
    /\ Cardinality(spawned \ colliders) = 2
    /\ score = 2

\* C10: whatever the order in which the overlapping colliders are visited,
\* check_for_collisions leaves the same velocity, flag, score, despawns and
\* number of signals; every overlapping collider is processed.
C10_OrderIndependence ==
    [][Runs("check_for_collisions") =>
          LET hit == Overlapping(translation, colliders)
              start == LoopStart(velocity, isjumping, score, commands)
          IN  /\ \A order \in Orders(hit) :
                     VisitAll(translation, order, start) =
                         [velocity |-> velocity', isjumping |-> isjumping',
                          score |-> score', commands |-> commands',
                          events |-> events']
              /\ events' = Cardinality(hit)
              /\ colliders' = colliders
      ]_vars

\* C10 witness: the collision step has processed a wall and a brick in the
\* same tick.
C10_Witness ==
    /\ phase = "run"
    /\ "check_for_collisions" \in ran
    /\ events >= 2
    /\ commands # {}
    /\ WallSides(translation, colliders) # {}

\* The rectangles of Mario at tr and of collider e share interior points:
\* their centres are closer than the sum of the half extents on both axes.
RectanglesOverlap(tr, e) ==
    LET c == ColliderTranslation(e)
        size == ColliderScale(e)
    IN  /\ 2 * Abs(tr.x - c.x) < MARIO_SIZE.x + size.x
        /\ 2 * Abs(tr.y - c.y) < MARIO_SIZE.y + size.y

\* C11: a collider whose rectangle does not overlap Mario's is reported as no
\* collision, and visiting it changes nothing of the loop state and sends no
\* signal; when no live collider overlaps Mario, check_for_collisions leaves
\* velocity, is_jumping, score, the despawn queue, the collider set and the
\* position as they were and sends no signal.
C11_NoOverlapNoEffect ==
    [][Runs("check_for_collisions") =>
          LET start == LoopStart(velocity, isjumping, score, commands)
              done == [velocity |-> velocity', isjumping |-> isjumping',
                       score |-> score', commands |-> commands', events |-> events']
              apart == {e \in colliders : ~RectanglesOverlap(translation, e)}
          IN  /\ \A e \in apart :
                     /\ CollisionWith(translation, e) = "None"
                     /\ Visit(translation, e, start) = start
                     /\ Visit(translation, e, done) = done
              /\ apart = colliders =>
                     /\ done = start
                     /\ colliders' = colliders
                     /\ translation' = translation
      ]_vars

\* C11 witness: the collision step has run with walls and a brick alive and
\* none of them overlapping Mario, who keeps falling.
C11_Witness ==
    /\ phase = "run"
    /\ "check_for_collisions" \in ran
    /\ \A e \in colliders : ~RectanglesOverlap(translation, e)
    /\ \E e \in colliders : IsBrick(e)
    /\ events = 0
    /\ velocity.y < 0

\* C12: move_mario_input leaves velocity.x = -300 if Left is held (Right held
\* too or not), else +300 if Right is held, else 0, whatever velocity.x was;
\* and velocity.x changes in no other step but the collision step, which can
\* only zero it.
C12_HorizontalInput ==
    [][/\ Runs("move_mario_input") =>
             velocity'.x = IF "Left" \in keys THEN -300
                           ELSE IF "Right" \in keys THEN 300
                           ELSE 0
       /\ velocity'.x # velocity.x =>
             \/ Runs("move_mario_input")
             \/ Runs("check_for_collisions") /\ velocity'.x = 0
      ]_vars

\* C12 witness: Left and Right are both held in a later tick and the input
\* step has left velocity.x = -300.
C12_Witness ==
    /\ phase = "run"
    /\ tick >= 1
    /\ "move_mario_input" \in ran
    /\ "apply_velocity" \notin ran
    /\ {"Left", "Right"} \subseteq keys
    /\ velocity.x = -300

\* C13: in every reachable state exactly one entity carries the Mario
\* component, it is no member of the collider set, and every queued despawn
\* targets a Brick, so the single-entity queries always find their one
\* entity.
C13_OneActor ==
    /\ Cardinality(marios) = 1
    /\ marios \cap colliders = {}
    /\ \A e \in commands : IsBrick(e) /\ e \in colliders

\* C13 witness: bricks have been despawned and the actor is still there.
C13_Witness ==
    /\ EndOfTick
    /\ tick >= 2
    /\ spawned \ colliders # {}
    /\ marios = {MarioEntity}

\* C14: the number of signals check_for_collisions sends in a tick is the
\* number of live colliders, walls and bricks alike, whose rectangle overlaps
\* Mario's, whatever the side and whether or not the velocity changed.
C14_SignalCount ==
    [][Runs("check_for_collisions") =>
          events' = Cardinality({e \in colliders : RectanglesOverlap(translation, e)})
      ]_vars

\* C14 witness: a single brick and nothing else was overlapped in the tick,
\* and one signal was sent.
C14_Witness ==
    /\ phase = "run"
    /\ "check_for_collisions" \in ran
    /\ Cardinality(commands) = 1
    /\ WallSides(translation, colliders) = {}
    /\ events = 1

\* C15: the paddle is at its spawn position (0, -500) in every reachable
\* state.
C15_PaddleStays == paddle = Vec(Px(0), Px(-500))

\* C15 witness: move_pacman has run with Left and Down held.
C15_Witness ==
    /\ phase = "run"
    /\ tick >= 1
    /\ "move_pacman" \in ran
    /\ {"Left", "Down"} \subseteq keys
    /\ paddle = Vec(Px(0), Px(-500))

\* C18: a tick that begins with Mario at rest on top of a wall (velocity
\* (0, 0), is_jumping false, a wall overlapped on Top) and with no key held
\* moves him in none of its steps and ends with velocity (0, 0) and
\* is_jumping false: the integrator's -50 is undone by the Top hit of the
\* same tick.
C18_RestingFixedPoint ==
    [][atrest =>
          /\ translation' = translation
          /\ isjumping' = FALSE
          /\ Runs("apply_velocity") => velocity' = Vec(0, -GRAVITY)
          /\ tick' # tick => velocity = Vec(0, 0) /\ velocity' = Vec(0, 0)
      ]_vars

\* C18 witness: such a tick is over its collision step, Mario standing on
\* the wall again.
C18_Witness ==
    /\ atrest
    /\ Systems = ran
    /\ velocity = Vec(0, 0)
    /\ "Top" \in WallSides(translation, colliders)

\* C19: Mario's x changes only in the integrator step of a tick in which Left
\* or Right is held; so the spawn velocity (-300, 0) displaces nothing: at
\* the end of a first tick with neither held, x is 0 and velocity.x is 0.
C19_SpawnVelocityInert ==
    [][/\ translation'.x # translation.x =>
             /\ Runs("apply_velocity")
             /\ "Left" \in keys \/ "Right" \in keys
       /\ (tick' = 1 /\ phase' = "idle" /\ "Left" \notin keys' /\ "Right" \notin keys') =>
             translation'.x = 0 /\ velocity'.x = 0
      ]_vars

\* C19 witness: the first tick from setup() is over, Up alone was held, and
\* Mario is at x = 0 with velocity.x = 0.
C19_Witness ==
    /\ EndOfTick
    /\ tick = 1
    /\ keys = {"Up"}
    /\ translation.x = 0
    /\ velocity.x = 0
    /\ isjumping

\* C16 (as claimed): from setup(), whatever keys are held, Mario's centre y
\* stays above the centre line y = -240 of the Bottom wall.
C16_AboveBottomWall == translation.y > Px(-240)

\* Mario is below every live collider: his top edge is under the bottom edge
\* of each.
BelowEveryCollider ==
    \A e \in colliders :
        translation.y + MARIO_SIZE.y \div 2
            <= ColliderTranslation(e).y - ColliderScale(e).y \div 2

\* C17 (as claimed): every jump ends.  The flag is cleared only by a Top hit,
\* gravity only ever lowers velocity.y, and a jump needs the flag clear; so
\* from a state in flight, moving down, below every collider, the flag stays
\* set for ever.  If every jump ends, no such state is reachable.
C17_EveryJumpEnds == ~(isjumping /\ velocity.y < 0 /\ BelowEveryCollider)

====
